---- MODULE Spec2Model ----
(***************************************************************************)
(* A model of the MiniJinja Python binding's Environment                   *)
(* (minijinja-py/python/minijinja/__init__.py) and of the behaviour its    *)
(* test suite (minijinja-py/tests) pins down: the template cache and the   *)
(* loader, the one-value-at-a-time syntax reconfiguration, and the         *)
(* callbacks of a render (autoescape decision, finalizer, host callbacks). *)
(***************************************************************************)
EXTENDS Integers, Sequences, FiniteSets, TLC

(***************************************************************************)
(* Bounds of the model.                                                    *)
(***************************************************************************)
\* the number of render_template calls of one behaviour
MaxRenders == 4

\* the number of syntax reconfigurations of one behaviour
MaxReconfigs == 2

\* the number of expressions of a rendered template
MaxItems == 2

\* the depth of nested blocks, and of nested callback invocations
MaxDepth == 2

\* the number of path segments in a template name
MaxSegments == 3

\* the number of renders submitted to the executor, one thread each (the test
\* submits four)
MaxWorkers == 3

\* the time busy_wait waits, in ticks of the clock
WaitTicks == 1

\* the number of loader invocations of the concurrent lookups
MaxLoads == 3

(***************************************************************************)
(* State.                                                                  *)
(***************************************************************************)
VARIABLES
  loader,                \* env.loader
  cache,                 \* name -> the loader whose source was parsed and cached
  reload_before_render,  \* env.reload_before_render
  called,                \* the names the loader was invoked with (test: called)
  rendered,              \* the names rendered with render_template, in order
  loadsSinceClear,       \* history: loader invocations since the cache was last cleared
  rendersSinceClear,     \* history: renders since the cache was last cleared
  preSet,                \* history: names cached when env.loader was last assigned
  preReload,             \* history: names cached when reload() last ran, not rendered since
  mark,                  \* history: lengths of called/rendered when the flag was switched on
  lastOp                 \* history: the last operation and what it did

cacheVars == <<loader, cache, reload_before_render, called, rendered,
               loadsSinceClear, rendersSinceClear, preSet, preReload, mark, lastOp>>

VARIABLES
  syntax,        \* the active delimiter set of the environment
  pcSyntax,      \* 0: no reconfiguration runs; i: Fields[i] is assigned next
  target,        \* the delimiter set the running reconfiguration asks for
  snapshot,      \* history: the active set when the reconfiguration began
  outcome,       \* "none", "applied" or "rejected": how the last one ended
  reconfigs,     \* the number of reconfigurations begun
  rendering,     \* per thread: a render is in progress
  lexer,         \* per thread: the delimiter set its render tokenizes with
  mixedStart     \* history, per thread: the render read a set that is neither
                 \* the one before the running reconfiguration nor its target

syntaxVars == <<syntax, pcSyntax, target, snapshot, outcome, reconfigs, rendering, lexer, mixedStart>>

VARIABLES
  rPc,           \* "idle", "decide", "emit" or "done": where the render call is
  rName,         \* the template name of the call
  rAutoEscape,   \* env.auto_escape_callback
  rFinalizer,    \* env.finalizer
  rItems,        \* the template: the expressions it writes, in order
  rIdx,          \* the number of expressions evaluated
  rMode,         \* state.auto_escape of this render
  rOutput,       \* the text written so far, one piece per value
  rResult,       \* what the call gives its caller
  unraisable,    \* what sys.unraisablehook received
  aeCalls,       \* history: the names the autoescape callback was invoked with
  finCalls,      \* history: the values the finalizer was invoked on
  observed       \* history: state.auto_escape as each callback saw it

renderVars == <<rPc, rName, rAutoEscape, rFinalizer, rItems, rIdx, rMode, rOutput,
                rResult, unraisable, aeCalls, finCalls, observed>>

VARIABLES
  current_block,  \* state.current_block
  current_call,   \* state.current_call
  savedBlocks,    \* the current_block values of the enclosing blocks, to restore
  savedCalls,     \* the current_call values of the suspended callbacks, to restore
  enclosing,      \* history: the names of the blocks entered and not left
  running,        \* history: the names the running callbacks were invoked under
  lastObs         \* history: what the last state-aware callback read from state,
                  \* and the step of the render that came before the read

stateVars == <<current_block, current_call, savedBlocks, savedCalls, enclosing,
               running, lastObs>>

VARIABLES
  pPc,        \* position of render_template: "idle", "loaded"
  pName,      \* the name passed to render_template, as its "/"-separated segments
  pReturn,    \* what the loader returned for it
  pOutcome    \* how the last render_template ended

pathVars == <<pPc, pName, pReturn, pOutcome>>

VARIABLES
  wPc,        \* position of each worker thread of the executor
  gil,        \* the thread that holds the interpreter lock, 0 for none
  elapsed,    \* time() - start of each thread's busy_wait, in ticks
  calls,      \* how often each thread's render has invoked busy_wait
  done,       \* the list the callback appends to
  overlapped  \* history: two threads were inside busy_wait at the same time

threadVars == <<wPc, gil, elapsed, calls, done, overlapped>>

VARIABLES
  ePc,        \* life of the error object: "none", "making" (inside make_error), "live"
  eStep,      \* the next statement of make_error
  eArg,       \* how the error is made: directly from a message, or by make_error
              \* from an info
  err,        \* the TemplateError object: its args and its _info
  eBorn,      \* history: what the object reported when __init__ had built it
  eReturned,  \* history: what the object reported when it was handed out
  eSeen       \* history: what the holder of the error last read from it

errVars == <<ePc, eStep, eArg, err, eBorn, eReturned, eSeen>>

VARIABLES
  mPc,        \* position of each thread's template lookup: "idle", "loading", "writing"
  mName,      \* the name each thread resolves
  mLocal,     \* the load each thread parsed its template from
  mStep,      \* the next step of each thread's cache write
  mCache,     \* the shared template cache
  mLoads,     \* the number of loader invocations so far
  mLast,      \* history: per name, the load of the last completed write
  mRead,      \* history: the entry each thread last read from the cache
  mOverlap    \* history: two threads missed the cache for one name at the same time

missVars == <<mPc, mName, mLocal, mStep, mCache, mLoads, mLast, mRead, mOverlap>>

\* the variables of the parts further down, which the actions above them leave alone
laterVars == <<stateVars, pathVars, threadVars, errVars, missVars>>

\* what the actions of one part leave alone
exceptState ==
  <<cacheVars, syntaxVars, renderVars, pathVars, threadVars, errVars, missVars>>

exceptPath ==
  <<cacheVars, syntaxVars, renderVars, stateVars, threadVars, errVars, missVars>>

exceptError ==
  <<cacheVars, syntaxVars, renderVars, stateVars, pathVars, threadVars, missVars>>

exceptMisses ==
  <<cacheVars, syntaxVars, renderVars, stateVars, pathVars, threadVars, errVars>>

exceptThreads ==
  <<cacheVars, syntaxVars, renderVars, stateVars, pathVars, errVars, missVars>>

(***************************************************************************)
(* Template cache and loader.                                              *)
(***************************************************************************)
\* template names handed to render_template (test_loader renders two names)
Names == {"index.html", "other.html"}

\* loader callables that can be assigned to env.loader
Loaders == {"my_loader", "other_loader"}

\* marks a name without a cached entry
NoEntry == "none"

EmptyCache == [n \in Names |-> NoEntry]

Cached(c) == {n \in Names : c[n] # NoEntry}

NoOp == [op |-> "init", name |-> "", loaded |-> FALSE, cachedAtSet |-> FALSE,
         cachedAtReload |-> FALSE, flag |-> FALSE, loaderBefore |-> ""]

CacheInit ==
  /\ loader = "my_loader"
  /\ cache = EmptyCache
  /\ reload_before_render = FALSE
  /\ called = <<>>
  /\ rendered = <<>>
  /\ loadsSinceClear = <<>>
  /\ rendersSinceClear = <<>>
  /\ preSet = {}
  /\ preReload = {}
  /\ mark = <<0, 0>>
  /\ lastOp = NoOp

\* variant: the flag is ignored
CacheAtRenderStart_NoClear(c, flag) == c

\* the cache a render starts from: reload_before_render clears it first
CacheAtRenderStart(c, flag) == IF flag THEN EmptyCache ELSE c

\* variant: the cache is never consulted
NeedsLoad_Always(c, n) == TRUE

\* whether resolving name n against cache c invokes the loader
NeedsLoad(c, n) == c[n] = NoEntry

\* variant: the assignment drops the entries
CacheAfterSetLoader_Cleared(c) == EmptyCache

\* the cache after env.loader was assigned: the entries stay
\* (test_loader: the render after the assignment does not call the loader)
CacheAfterSetLoader(c) == c

\* variant: reload() keeps the entries
CacheAfterReload_Kept(c) == c

\* the cache after env.reload()
CacheAfterReload(c) == EmptyCache

\* env.render_template(n): clear first when the flag is set, resolve n
\* (the loader runs on a miss and its parse is cached), then render
RenderTemplate(n) ==
  /\ UNCHANGED <<syntaxVars, renderVars, laterVars>>
  /\ Len(rendered) < MaxRenders
  /\ LET c0 == CacheAtRenderStart(cache, reload_before_render)
         load == NeedsLoad(c0, n)
         inval == reload_before_render
     IN /\ cache' = IF load THEN [c0 EXCEPT ![n] = loader] ELSE c0
        /\ called' = IF load THEN Append(called, n) ELSE called
        /\ rendered' = Append(rendered, n)
        /\ loadsSinceClear' = (IF inval THEN <<>> ELSE loadsSinceClear)
                                \o (IF load THEN <<n>> ELSE <<>>)
        /\ rendersSinceClear' = (IF inval THEN <<>> ELSE rendersSinceClear) \o <<n>>
        /\ preSet' = IF inval THEN {} ELSE preSet
        /\ preReload' = preReload \ {n}
        /\ lastOp' = [op |-> "render", name |-> n, loaded |-> load,
                      cachedAtSet |-> (~inval /\ n \in preSet),
                      cachedAtReload |-> (n \in preReload),
                      flag |-> reload_before_render, loaderBefore |-> loader]
  /\ UNCHANGED <<loader, reload_before_render, mark>>

\* env.loader = l
SetLoader(l) ==
  /\ UNCHANGED <<syntaxVars, renderVars, laterVars>>
  /\ loader' = l
  /\ cache' = CacheAfterSetLoader(cache)
  /\ preSet' = Cached(cache)
  /\ lastOp' = [NoOp EXCEPT !.op = "set_loader", !.loaderBefore = loader]
  /\ UNCHANGED <<reload_before_render, called, rendered, loadsSinceClear,
                 rendersSinceClear, preReload, mark>>

\* env.reload()
Reload ==
  /\ UNCHANGED <<syntaxVars, renderVars, laterVars>>
  /\ cache' = CacheAfterReload(cache)
  /\ preReload' = Cached(cache)
  /\ preSet' = {}
  /\ loadsSinceClear' = <<>>
  /\ rendersSinceClear' = <<>>
  /\ lastOp' = [NoOp EXCEPT !.op = "reload", !.loaderBefore = loader]
  /\ UNCHANGED <<loader, reload_before_render, called, rendered, mark>>

\* env.reload_before_render = b
SetReloadBeforeRender(b) ==
  /\ UNCHANGED <<syntaxVars, renderVars, laterVars>>
  /\ b # reload_before_render
  /\ reload_before_render' = b
  /\ mark' = IF b THEN <<Len(called), Len(rendered)>> ELSE mark
  /\ lastOp' = [NoOp EXCEPT !.op = "set_flag", !.flag = b, !.loaderBefore = loader]
  /\ UNCHANGED <<loader, cache, called, rendered, loadsSinceClear,
                 rendersSinceClear, preSet, preReload>>

CacheNext ==
  \/ \E n \in Names : RenderTemplate(n)
  \/ \E l \in Loaders : SetLoader(l)
  \/ Reload
  \/ \E b \in BOOLEAN : SetReloadBeforeRender(b)

(***************************************************************************)
(* Syntax configuration: Environment.__init__ assigns the eight syntax     *)
(* values one attribute at a time; each assignment is validated by the     *)
(* setter and raises when the resulting delimiter set conflicts.           *)
(***************************************************************************)
\* the syntax attributes in the order __init__ assigns them
Fields == <<"block_start_string", "block_end_string",
            "variable_start_string", "variable_end_string",
            "comment_start_string", "comment_end_string",
            "line_statement_prefix", "line_comment_prefix">>

\* the attributes that open a tag
StartFields == {"block_start_string", "variable_start_string", "comment_start_string"}

MkSyntax(bs, be, vs, ve, cs, ce, ls, lc) ==
  [block_start_string |-> bs, block_end_string |-> be,
   variable_start_string |-> vs, variable_end_string |-> ve,
   comment_start_string |-> cs, comment_end_string |-> ce,
   line_statement_prefix |-> ls, line_comment_prefix |-> lc]

\* the keyword defaults of Environment.__init__
DefaultSyntax == MkSyntax("{%", "%}", "{{", "}}", "{#", "#}", "None", "None")

\* the delimiter sets a reconfiguration asks for
Targets ==
  { DefaultSyntax,
    \* test_custom_syntax
    MkSyntax("[%", "%]", "{", "}", "/*", "*/", "None", "None"),
    \* test_custom_delimiters
    MkSyntax("<%", "%>", "${", "}", "<!--", "-->", "None", "None"),
    \* test_line_statements
    MkSyntax("{%", "%}", "{{", "}}", "{#", "#}", "#", "##"),
    \* block and variable delimiters exchanged
    MkSyntax("{{", "}}", "{%", "%}", "{#", "#}", "None", "None"),
    \* a conflicting set: block start and variable start are the same string
    MkSyntax("<%", "%>", "<%", "}}", "{#", "#}", "None", "None") }

\* the setter's validation: two roles open a tag with the same string
Collides(cfg) ==
  \E f, g \in StartFields : f # g /\ cfg[f] = cfg[g]

\* threads that render against the environment
Threads == {1, 2}

SyntaxInit ==
  /\ syntax = DefaultSyntax
  /\ pcSyntax = 0
  /\ target = DefaultSyntax
  /\ snapshot = DefaultSyntax
  /\ outcome = "none"
  /\ reconfigs = 0
  /\ rendering = [t \in Threads |-> FALSE]
  /\ lexer = [t \in Threads |-> DefaultSyntax]
  /\ mixedStart = [t \in Threads |-> FALSE]

\* a reconfiguration with the delimiter set tgt begins (__init__ reaches line 84)
BeginReconfigure(tgt) ==
  /\ UNCHANGED <<cacheVars, renderVars, laterVars>>
  /\ pcSyntax = 0
  /\ reconfigs < MaxReconfigs
  /\ pcSyntax' = 1
  /\ target' = tgt
  /\ snapshot' = syntax
  /\ outcome' = "none"
  /\ reconfigs' = reconfigs + 1
  /\ UNCHANGED <<syntax, rendering, lexer, mixedStart>>

\* the active set after self.<field> = value was accepted
Assigned(cfg, field, value) == [cfg EXCEPT ![field] = value]

\* one assignment of lines 84-91: self.<Fields[pcSyntax]> = target value.
\* A conflicting result raises out of __init__ and the rest is not assigned.
AssignSyntaxValue ==
  /\ UNCHANGED <<cacheVars, renderVars, laterVars>>
  /\ pcSyntax \in 1..Len(Fields)
  /\ LET field == Fields[pcSyntax]
         new == Assigned(syntax, field, target[field])
     IN IF Collides(new)
        THEN /\ outcome' = "rejected"
             /\ pcSyntax' = 0
             /\ UNCHANGED syntax
        ELSE /\ syntax' = new
             /\ pcSyntax' = IF pcSyntax = Len(Fields) THEN 0 ELSE pcSyntax + 1
             /\ outcome' = IF pcSyntax = Len(Fields) THEN "applied" ELSE "none"
  /\ UNCHANGED <<target, snapshot, reconfigs, rendering, lexer, mixedStart>>

\* thread t starts a render: it reads the active delimiter set
RenderStart(t) ==
  /\ UNCHANGED <<cacheVars, renderVars, laterVars>>
  /\ ~rendering[t]
  /\ rendering' = [rendering EXCEPT ![t] = TRUE]
  /\ lexer' = [lexer EXCEPT ![t] = syntax]
  /\ mixedStart' = [mixedStart EXCEPT ![t] = pcSyntax # 0 /\ syntax \notin {snapshot, target}]
  /\ UNCHANGED <<syntax, pcSyntax, target, snapshot, outcome, reconfigs>>

\* thread t finishes its render
RenderFinish(t) ==
  /\ UNCHANGED <<cacheVars, renderVars, laterVars>>
  /\ rendering[t]
  /\ rendering' = [rendering EXCEPT ![t] = FALSE]
  /\ lexer' = [lexer EXCEPT ![t] = DefaultSyntax]
  /\ mixedStart' = [mixedStart EXCEPT ![t] = FALSE]
  /\ UNCHANGED <<syntax, pcSyntax, target, snapshot, outcome, reconfigs>>

SyntaxNext ==
  \/ \E tgt \in Targets : BeginReconfigure(tgt)
  \/ AssignSyntaxValue
  \/ \E t \in Threads : RenderStart(t)
  \/ \E t \in Threads : RenderFinish(t)

(***************************************************************************)
(* One render or eval call: the autoescape decision, the callbacks of the  *)
(* template's expressions, the finalizer, and the text written.            *)
(***************************************************************************)
\* text is a sequence of characters
Text_test == <<"t", "e", "s", "t">>
Text_x == <<"<", "x", ">">>

\* the context values the tests render
Undefined == [kind |-> "undefined", chars |-> <<>>]
None == [kind |-> "none", chars |-> <<>>]
Str(chars) == [kind |-> "str", chars |-> chars]
Bytes(chars) == [kind |-> "bytes", chars |-> chars]
\* safe(s): Markup(s)
Safe(chars) == [kind |-> "safe", chars |-> chars]
\* the finalizer's "not applicable" signal
NotImplemented == [kind |-> "NotImplemented", chars |-> <<>>]

Values == {Undefined, None, Str(Text_test), Str(Text_x), Bytes(Text_test), Safe(Text_x)}

\* exceptions: the type, the message and the callback that raised it
NoExc == [type |-> "", msg |-> "", origin |-> ""]
Exc(type, msg, origin) == [type |-> type, msg |-> msg, origin |-> origin]

\* the host callbacks an expression can go through
CallKinds == {"filter", "test", "function", "getattr"}

\* what a raising callback of each kind raises
RaisedBy(kind) ==
  IF kind \in {"getattr", "test"} THEN Exc("RuntimeError", "boom", kind)
  ELSE Exc("ZeroDivisionError", "division by zero", kind)

\* the expressions a template is made of
Items ==
  [call : {"none"}, raises : {FALSE}, value : Values]
  \cup [call : CallKinds, raises : BOOLEAN, value : {Str(Text_x)}]

\* the templates of at most n expressions
Templates(n) == UNION {[1..k -> Items] : k \in 0..n}

\* env.render_template(name), env.render_str(source) and env.eval_expr(expr)
TemplateNames == {"foo.html", "invalid.html"}
StringName == "<string>"
ExpressionName == "<expression>"
RenderNames == TemplateNames \cup {StringName, ExpressionName}

IsEval(name) == name = ExpressionName

AutoEscapeCallbacks == {"None", "auto_escape", "lambda_true"}
Finalizers == {"None", "my_finalizer", "raising_finalizer"}

\* the autoescape callback: test_autoescape's auto_escape asserts the name
\* and returns "html", test_honor_safe's lambda returns True for every name
AutoEscapeReturn(cb, name) ==
  IF cb = "auto_escape" /\ name # "foo.html"
  THEN [exc |-> Exc("AssertionError", "", "auto_escape"), mode |-> "none"]
  ELSE [exc |-> NoExc, mode |-> "html"]

\* variant: the callback is asked a second time
AutoEscapeInvocations_Twice(cb, name) ==
  IF cb = "None" THEN <<>> ELSE <<name, name>>

\* the autoescape callback's invocations for one render: with the template's name
AutoEscapeInvocations(cb, name) ==
  IF cb = "None" THEN <<>> ELSE <<name>>

\* variant: the callback's failure ends the render
AutoEscapeDecision_Abort(cb, name) ==
  IF cb = "None" THEN [mode |-> "none", unraisable |-> NoExc, abort |-> NoExc]
  ELSE LET r == AutoEscapeReturn(cb, name)
       IN IF r.exc # NoExc
          THEN [mode |-> "none", unraisable |-> NoExc, abort |-> r.exc]
          ELSE [mode |-> r.mode, unraisable |-> NoExc, abort |-> NoExc]

\* what the render does with the callback's answer: a failure goes to the
\* unraisable hook and the render goes on without escaping
AutoEscapeDecision(cb, name) ==
  IF cb = "None" THEN [mode |-> "none", unraisable |-> NoExc, abort |-> NoExc]
  ELSE LET r == AutoEscapeReturn(cb, name)
       IN IF r.exc # NoExc
          THEN [mode |-> "none", unraisable |-> r.exc, abort |-> NoExc]
          ELSE [mode |-> r.mode, unraisable |-> NoExc, abort |-> NoExc]

\* state.auto_escape as a callback reads it while value number i is evaluated
ObservedMode(mode, i) == mode

\* html.escape, one character at a time
EscapeChar(c) ==
  CASE c = "<" -> <<"&", "l", "t", ";">>
    [] c = ">" -> <<"&", "g", "t", ";">>
    [] c = "&" -> <<"&", "a", "m", "p", ";">>
    [] OTHER -> <<c>>

RECURSIVE EscapeText(_)
EscapeText(chars) ==
  IF chars = <<>> THEN <<>>
  ELSE EscapeChar(Head(chars)) \o EscapeText(Tail(chars))

\* escape(value): a value with __html__ is returned as it is
Escape(v) == IF v.kind = "safe" THEN v ELSE Safe(EscapeText(v.chars))

\* binascii.b2a_hex, one byte at a time
HexChar(c) ==
  CASE c = "t" -> <<"7", "4">>
    [] c = "e" -> <<"6", "5">>
    [] c = "s" -> <<"7", "3">>
    [] c = "<" -> <<"3", "c">>
    [] c = "x" -> <<"7", "8">>
    [] c = ">" -> <<"3", "e">>
    [] OTHER -> <<"?", "?">>

RECURSIVE HexText(_)
HexText(chars) ==
  IF chars = <<>> THEN <<>>
  ELSE HexChar(Head(chars)) \o HexText(Tail(chars))

\* the value a callback receives: an undefined value arrives as None
ToHost(v) == IF v.kind = "undefined" THEN None ELSE v

\* the finalizer callback: what it returns or raises for a value.
\* my_finalizer asserts state.name, maps None to "" and bytes to their hex
\* string, and returns NotImplemented otherwise; raising_finalizer does 1 / 0
FinalizerReturn(fin, name, v) ==
  IF fin = "raising_finalizer"
  THEN [exc |-> Exc("ZeroDivisionError", "division by zero", "finalizer"), value |-> None]
  ELSE IF name # StringName
  THEN [exc |-> Exc("AssertionError", "", "finalizer"), value |-> None]
  ELSE IF v.kind = "none" THEN [exc |-> NoExc, value |-> Str(<<>>)]
  ELSE IF v.kind = "bytes" THEN [exc |-> NoExc, value |-> Str(HexText(v.chars))]
  ELSE [exc |-> NoExc, value |-> NotImplemented]

\* variant: NotImplemented is taken as the finalizer's value
Finalized_KeepSignal(fin, name, v) ==
  IF fin = "None" THEN v ELSE FinalizerReturn(fin, name, ToHost(v)).value

\* the value that goes to the output after the finalizer ran on v
Finalized(fin, name, v) ==
  IF fin = "None" THEN v
  ELSE LET r == FinalizerReturn(fin, name, ToHost(v))
       IN IF r.value = NotImplemented THEN v ELSE r.value

\* the text of a value
TextOf(v) ==
  CASE v.kind = "undefined" -> <<>>
    [] v.kind = "none" -> <<"n", "o", "n", "e">>
    [] OTHER -> v.chars

\* the text written for a value under an autoescape mode
Written(v, mode) ==
  IF mode = "html" /\ v.kind \in {"str", "bytes"} THEN Escape(v).chars ELSE TextOf(v)

\* variant: the engine wraps the exception
Propagated_AsTemplateError(exc) == Exc("TemplateError", exc.msg, "engine")

\* the exception the caller of render/eval receives when a callback raised exc
Propagated(exc) == exc

NoResult == [status |-> "none", exc |-> NoExc]

RenderInit ==
  /\ rPc = "idle"
  /\ rName = StringName
  /\ rAutoEscape = "None"
  /\ rFinalizer = "None"
  /\ rItems = <<>>
  /\ rIdx = 0
  /\ rMode = "none"
  /\ rOutput = <<>>
  /\ rResult = NoResult
  /\ unraisable = NoExc
  /\ aeCalls = <<>>
  /\ finCalls = <<>>
  /\ observed = <<>>

\* env.render_template / env.render_str / env.eval_expr is called
BeginRender(name, cb, fin, items) ==
  /\ UNCHANGED <<cacheVars, syntaxVars, laterVars>>
  /\ rPc = "idle"
  /\ IsEval(name) => Len(items) = 1
  /\ rPc' = "decide"
  /\ rName' = name
  /\ rAutoEscape' = cb
  /\ rFinalizer' = fin
  /\ rItems' = items
  /\ rIdx' = 0
  /\ rMode' = "none"
  /\ rOutput' = <<>>
  /\ rResult' = NoResult
  /\ unraisable' = NoExc
  /\ aeCalls' = <<>>
  /\ finCalls' = <<>>
  /\ observed' = <<>>

\* the render decides its autoescape mode, before it writes anything
DecideAutoEscape ==
  /\ UNCHANGED <<cacheVars, syntaxVars, laterVars>>
  /\ rPc = "decide"
  /\ LET d == AutoEscapeDecision(rAutoEscape, rName)
     IN /\ aeCalls' = aeCalls \o AutoEscapeInvocations(rAutoEscape, rName)
        /\ rMode' = d.mode
        /\ unraisable' = d.unraisable
        /\ IF d.abort # NoExc
           THEN /\ rPc' = "done"
                /\ rResult' = [status |-> "raised", exc |-> Propagated(d.abort)]
           ELSE /\ rPc' = "emit"
                /\ UNCHANGED rResult
  /\ UNCHANGED <<rName, rAutoEscape, rFinalizer, rItems, rIdx, rOutput, finCalls, observed>>

\* the next expression is evaluated (its callback runs), finalized and written
EmitValue ==
  /\ UNCHANGED <<cacheVars, syntaxVars, laterVars>>
  /\ rPc = "emit"
  /\ rIdx < Len(rItems)
  /\ LET item == rItems[rIdx + 1]
         seen == ObservedMode(rMode, rIdx + 1)
         useFin == rFinalizer # "None" /\ ~IsEval(rName)
         f == FinalizerReturn(rFinalizer, rName, ToHost(item.value))
     IN /\ rIdx' = rIdx + 1
        /\ IF item.call # "none" /\ item.raises
           THEN \* the callback raised: the call ends with its exception
                /\ observed' = Append(observed, seen)
                /\ rPc' = "done"
                /\ rResult' = [status |-> "raised", exc |-> Propagated(RaisedBy(item.call))]
                /\ UNCHANGED <<rOutput, finCalls>>
           ELSE IF useFin /\ f.exc # NoExc
           THEN \* the finalizer raised
                /\ observed' = observed \o (IF item.call # "none" THEN <<seen>> ELSE <<>>)
                                        \o <<seen>>
                /\ finCalls' = Append(finCalls, ToHost(item.value))
                /\ rPc' = "done"
                /\ rResult' = [status |-> "raised", exc |-> Propagated(f.exc)]
                /\ UNCHANGED rOutput
           ELSE /\ observed' = observed \o (IF item.call # "none" THEN <<seen>> ELSE <<>>)
                                        \o (IF useFin THEN <<seen>> ELSE <<>>)
                /\ finCalls' = IF useFin THEN Append(finCalls, ToHost(item.value))
                               ELSE finCalls
                /\ rOutput' = IF IsEval(rName) THEN rOutput
                              ELSE Append(rOutput,
                                          Written(Finalized(rFinalizer, rName, item.value), rMode))
                /\ UNCHANGED <<rPc, rResult>>
  /\ UNCHANGED <<rName, rAutoEscape, rFinalizer, rItems, rMode, unraisable, aeCalls>>

\* every expression was written: the call returns
FinishRender ==
  /\ UNCHANGED <<cacheVars, syntaxVars, laterVars>>
  /\ rPc = "emit"
  /\ rIdx = Len(rItems)
  /\ rPc' = "done"
  /\ rResult' = [status |-> "ok", exc |-> NoExc]
  /\ UNCHANGED <<rName, rAutoEscape, rFinalizer, rItems, rIdx, rMode, rOutput,
                 unraisable, aeCalls, finCalls, observed>>

\* the caller has the result; the environment is ready for the next call
ReturnToCaller ==
  /\ UNCHANGED <<cacheVars, syntaxVars, laterVars>>
  /\ rPc = "done"
  /\ rPc' = "idle"
  /\ rName' = StringName
  /\ rAutoEscape' = "None"
  /\ rFinalizer' = "None"
  /\ rItems' = <<>>
  /\ rIdx' = 0
  /\ rMode' = "none"
  /\ rOutput' = <<>>
  /\ rResult' = NoResult
  /\ unraisable' = NoExc
  /\ aeCalls' = <<>>
  /\ finCalls' = <<>>
  /\ observed' = <<>>

RenderNext ==
  \/ /\ rPc = "idle"
     /\ \E name \in RenderNames, cb \in AutoEscapeCallbacks, fin \in Finalizers,
           items \in Templates(MaxItems) : BeginRender(name, cb, fin, items)
  \/ DecideAutoEscape
  \/ EmitValue
  \/ FinishRender
  \/ ReturnToCaller

(***************************************************************************)
(* Execution state: the block and the call a state-aware callback sees.    *)
(***************************************************************************)
\* the blocks of the rendered templates (test_state renders a block foo)
BlockNames == {"foo", "bar"}

\* the names callbacks are invoked under, with the function behind each:
\* env.add_filter("myfilter", my_filter), env.add_test("mytest", my_test),
\* and my_func passed or added as my_func
Registered == [myfilter |-> "my_filter", mytest |-> "my_test", my_func |-> "my_func"]

CallNames == DOMAIN Registered

\* state.current_block / state.current_call outside any block or call
NoName == "None"

\* variant: the function's own name
CallName_OfFunction(invokedAs) == Registered[invokedAs]

\* state.current_call for a callback invoked under the name invokedAs
CallName(invokedAs) == invokedAs

\* variant: the value is cleared instead of restored
Restored_Cleared(saved) == NoName

\* the value of a state field after the nested block or call ended
Restored(saved) == saved[Len(saved)]

StateInit ==
  /\ current_block = NoName
  /\ current_call = NoName
  /\ savedBlocks = <<>>
  /\ savedCalls = <<>>
  /\ enclosing = <<>>
  /\ running = <<>>
  /\ lastObs = [block |-> NoName, call |-> NoName, seen |-> FALSE, after |-> "start"]

\* the render enters {% block b %}
EnterBlock(b) ==
  /\ UNCHANGED exceptState
  /\ Len(savedBlocks) < MaxDepth
  /\ running = <<>>
  /\ savedBlocks' = Append(savedBlocks, current_block)
  /\ current_block' = b
  /\ enclosing' = Append(enclosing, b)
  /\ lastObs' = [lastObs EXCEPT !.seen = FALSE, !.after = "enter"]
  /\ UNCHANGED <<current_call, savedCalls, running>>

\* the render reaches {% endblock %}
LeaveBlock ==
  /\ UNCHANGED exceptState
  /\ savedBlocks # <<>>
  /\ running = <<>>
  /\ current_block' = Restored(savedBlocks)
  /\ savedBlocks' = SubSeq(savedBlocks, 1, Len(savedBlocks) - 1)
  /\ enclosing' = SubSeq(enclosing, 1, Len(enclosing) - 1)
  /\ lastObs' = [lastObs EXCEPT !.seen = FALSE, !.after = "leave"]
  /\ UNCHANGED <<current_call, savedCalls, running>>

\* a filter, test or function is invoked under the name n, from the template
\* or from inside a running callback
InvokeCallback(n) ==
  /\ UNCHANGED exceptState
  /\ Len(savedCalls) < MaxDepth
  /\ savedCalls' = Append(savedCalls, current_call)
  /\ current_call' = CallName(n)
  /\ running' = Append(running, n)
  /\ lastObs' = [lastObs EXCEPT !.seen = FALSE, !.after = "invoke"]
  /\ UNCHANGED <<current_block, savedBlocks, enclosing>>

\* the running state-aware callback reads state.current_block and
\* state.current_call
ObserveState ==
  /\ UNCHANGED exceptState
  /\ running # <<>>
  /\ lastObs' = [block |-> current_block, call |-> current_call, seen |-> TRUE,
               after |-> lastObs.after]
  /\ UNCHANGED <<current_block, current_call, savedBlocks, savedCalls, enclosing, running>>

\* the running callback returns
ReturnCallback ==
  /\ UNCHANGED exceptState
  /\ savedCalls # <<>>
  /\ current_call' = Restored(savedCalls)
  /\ savedCalls' = SubSeq(savedCalls, 1, Len(savedCalls) - 1)
  /\ running' = SubSeq(running, 1, Len(running) - 1)
  /\ lastObs' = [lastObs EXCEPT !.seen = FALSE, !.after = "return"]
  /\ UNCHANGED <<current_block, savedBlocks, enclosing>>

StateNext ==
  \/ \E b \in BlockNames : EnterBlock(b)
  \/ LeaveBlock
  \/ \E n \in CallNames : InvokeCallback(n)
  \/ ObserveState
  \/ ReturnCallback

(***************************************************************************)
(* Loading templates from a directory: load_from_path("tests/templates").  *)
(***************************************************************************)
\* the path segments a template name is made of
Segments == {"base.txt", "missing.txt", "..", "test_basic.py"}

\* template names: "base.txt" is <<"base.txt">>, "../test_basic.py" is
\* <<"..", "test_basic.py">>
PathNames == UNION {[1..k -> Segments] : k \in 1..MaxSegments}

\* where a name leads from the template root: `up' directories above it,
\* then down `path'
RECURSIVE Walk(_, _, _)
Walk(name, i, at) ==
  IF i > Len(name) THEN at
  ELSE IF name[i] = ".."
       THEN IF at.path = <<>>
            THEN Walk(name, i + 1, [at EXCEPT !.up = at.up + 1])
            ELSE Walk(name, i + 1,
                      [at EXCEPT !.path = SubSeq(at.path, 1, Len(at.path) - 1)])
       ELSE Walk(name, i + 1, [at EXCEPT !.path = Append(at.path, name[i])])

Resolved(name) == Walk(name, 1, [up |-> 0, path |-> <<>>])

\* the resolved path leaves the template root
Escapes(name) == \E k \in 1..Len(name) : Resolved(SubSeq(name, 1, k)).up > 0

\* the files on disk: tests/templates/base.txt and tests/test_basic.py
Disk == {[up |-> 0, path |-> <<"base.txt">>], [up |-> 1, path |-> <<"test_basic.py">>]}

\* the loader's answer for a name it has no template for
Absent == [found |-> FALSE, file |-> [up |-> 0, path |-> <<>>]]

Source(file) == [found |-> TRUE, file |-> file]

\* variant: the loader opens whatever file the name leads to
LoadFromPath_Unchecked(name) ==
  IF Resolved(name) \in Disk THEN Source(Resolved(name)) ELSE Absent

\* the loader made by load_from_path: the source of the file under the root,
\* absence for a missing file and for a name that leaves the root
LoadFromPath(name) ==
  IF Escapes(name) THEN Absent
  ELSE IF Resolved(name) \in Disk THEN Source(Resolved(name)) ELSE Absent

NoOutcome == [kind |-> "none", text |-> <<>>]

\* render_template raises TemplateError of this kind when the loader returns
\* absence
TemplateNotFound == [kind |-> "TemplateNotFound", text |-> <<>>]

Rendered(src) == [kind |-> "ok", text |-> src.file.path]

PathInit ==
  /\ pPc = "idle"
  /\ pName = <<>>
  /\ pReturn = Absent
  /\ pOutcome = NoOutcome

\* env.render_template(name): the engine asks the loader for the name
RequestTemplate(name) ==
  /\ UNCHANGED exceptPath
  /\ pPc = "idle"
  /\ pPc' = "loaded"
  /\ pName' = name
  /\ pReturn' = LoadFromPath(name)
  /\ pOutcome' = NoOutcome

\* render_template renders what the loader returned, or raises
CompleteRenderTemplate ==
  /\ UNCHANGED exceptPath
  /\ pPc = "loaded"
  /\ pPc' = "idle"
  /\ pOutcome' = IF pReturn.found THEN Rendered(pReturn) ELSE TemplateNotFound
  /\ UNCHANGED <<pName, pReturn>>

PathNext ==
  \/ \E name \in PathNames : RequestTemplate(name)
  \/ CompleteRenderTemplate

(***************************************************************************)
(* Renders submitted to a thread pool, each with a callback that busy-     *)
(* waits: test_threading_interactions.                                     *)
(***************************************************************************)
\* the threads of the executor, one per submitted render
Workers == 1..MaxWorkers

NoThread == 0

\* the filters applied in "{{ 'something' | busy_wait(0.1) }}"
AppliedFilters == <<"busy_wait">>

\* variant: every filter is applied a second time
FilterApplications_Twice == 2 * Len(AppliedFilters)

\* the callback invocations of one render
FilterApplications == Len(AppliedFilters)

\* the loop condition of busy_wait: time() - start < seconds
StillWaiting(e) == e < WaitTicks

\* the interpreter can hand the lock to another thread while its holder runs
\* Python code
Preemptible(pc) == pc \in {"submitted", "waiting", "returned"}

ThreadInit ==
  /\ wPc = [w \in Workers |-> "submitted"]
  /\ gil = NoThread
  /\ elapsed = [w \in Workers |-> 0]
  /\ calls = [w \in Workers |-> 0]
  /\ done = <<>>
  /\ overlapped = FALSE

\* a thread that has work left takes the free interpreter lock
AcquireGil(w) ==
  /\ UNCHANGED exceptThreads
  /\ gil = NoThread
  /\ wPc[w] # "finished"
  /\ gil' = w
  /\ UNCHANGED <<wPc, elapsed, calls, done, overlapped>>

\* the interpreter switches from the running thread to w
SwitchGil(w) ==
  /\ UNCHANGED exceptThreads
  /\ gil \notin {NoThread, w}
  /\ Preemptible(wPc[gil])
  /\ wPc[w] # "finished"
  /\ gil' = w
  /\ UNCHANGED <<wPc, elapsed, calls, done, overlapped>>

\* the thread runs the submitted lambda, which calls env.render_str
StartRender(w) ==
  /\ UNCHANGED exceptThreads
  /\ gil = w
  /\ wPc[w] = "submitted"
  /\ wPc' = [wPc EXCEPT ![w] = "rendering"]
  /\ UNCHANGED <<gil, elapsed, calls, done, overlapped>>

\* the render applies the filter: busy_wait takes start = time()
InvokeFilter(w) ==
  /\ UNCHANGED exceptThreads
  /\ gil = w
  /\ wPc[w] = "rendering"
  /\ calls[w] < FilterApplications
  /\ wPc' = [wPc EXCEPT ![w] = "waiting"]
  /\ calls' = [calls EXCEPT ![w] = calls[w] + 1]
  /\ elapsed' = [elapsed EXCEPT ![w] = 0]
  /\ overlapped' = (overlapped \/ \E u \in Workers : wPc[u] = "waiting")
  /\ UNCHANGED <<gil, done>>

\* time passes for every thread inside busy_wait
Tick ==
  /\ UNCHANGED exceptThreads
  /\ \E w \in Workers : wPc[w] = "waiting" /\ StillWaiting(elapsed[w])
  /\ elapsed' = [w \in Workers |->
                   IF wPc[w] = "waiting" /\ StillWaiting(elapsed[w])
                   THEN elapsed[w] + 1 ELSE elapsed[w]]
  /\ UNCHANGED <<wPc, gil, calls, done, overlapped>>

\* busy_wait leaves its loop and appends the value
AppendDone(w) ==
  /\ UNCHANGED exceptThreads
  /\ gil = w
  /\ wPc[w] = "waiting"
  /\ ~StillWaiting(elapsed[w])
  /\ done' = Append(done, "something")
  /\ wPc' = [wPc EXCEPT ![w] = "returned"]
  /\ UNCHANGED <<gil, elapsed, calls, overlapped>>

\* busy_wait returns the value to the render
FilterReturns(w) ==
  /\ UNCHANGED exceptThreads
  /\ gil = w
  /\ wPc[w] = "returned"
  /\ wPc' = [wPc EXCEPT ![w] = "rendering"]
  /\ UNCHANGED <<gil, elapsed, calls, done, overlapped>>

\* render_str returns, the lambda ends and the thread gives up the lock
FinishThread(w) ==
  /\ UNCHANGED exceptThreads
  /\ gil = w
  /\ wPc[w] = "rendering"
  /\ calls[w] >= FilterApplications
  /\ wPc' = [wPc EXCEPT ![w] = "finished"]
  /\ gil' = NoThread
  /\ UNCHANGED <<elapsed, calls, done, overlapped>>

\* the steps of the thread w itself
WorkerStep(w) ==
  \/ StartRender(w)
  \/ InvokeFilter(w)
  \/ AppendDone(w)
  \/ FilterReturns(w)
  \/ FinishThread(w)

\* the interpreter lets w run
Schedule(w) == AcquireGil(w) \/ SwitchGil(w)

ThreadNext ==
  \/ \E w \in Workers : AcquireGil(w)
  \/ \E w \in Workers : SwitchGil(w)
  \/ \E w \in Workers : StartRender(w)
  \/ \E w \in Workers : InvokeFilter(w)
  \/ Tick
  \/ \E w \in Workers : AppendDone(w)
  \/ \E w \in Workers : FilterReturns(w)
  \/ \E w \in Workers : FinishThread(w)

(***************************************************************************)
(* TemplateError and make_error.                                           *)
(***************************************************************************)
\* Python's None for an optional attribute; a present value x is {x}
PyNone == {}

\* the short description: the kind, the detail and the location
Description(kind, name, detail, line) ==
  <<kind>> \o (IF detail = PyNone THEN <<>> ELSE <<"detail">>)
           \o (IF name = PyNone THEN <<>> ELSE <<"location">>)

\* the full description: the short one followed by the source excerpt
FullDescription(kind, name, detail, line, src) ==
  Description(kind, name, detail, line)
    \o (IF src = PyNone THEN <<>> ELSE <<"excerpt">>)

\* the error infos the engine hands to make_error
Infos ==
  {[kind |-> k, name |-> n, detail |-> d, line |-> l, range |-> r,
    template_source |-> src,
    description |-> Description(k, n, d, l),
    full_description |-> FullDescription(k, n, d, l, src)] :
     k \in {"SyntaxError", "UndefinedError", "TemplateNotFound"},
     n \in {PyNone, {"<expression>"}},
     d \in {PyNone, {"unexpected end of input"}},
     l \in {PyNone, {1}},
     r \in {PyNone, {<<2, 3>>}},
     src \in {PyNone, {"1 +"}}}

\* the messages a TemplateError is constructed with directly
Messages == {<<"boom">>, <<"InvalidOperation", "detail">>}

\* TemplateError.__init__(message)
New(message) == [args |-> <<message>>, info |-> PyNone]

\* err._info = info
Attached(e, info) == [e EXCEPT !.info = {info}]

TheInfo(e) == CHOOSE i \in e.info : TRUE

\* TemplateError.message
Message(e) == e.args[1]

\* TemplateError.kind
Kind(e) == IF e.info = PyNone THEN "Unknown" ELSE TheInfo(e).kind

\* TemplateError.name, detail, line, range and template_source
InfoAttr(e, attr) == IF e.info # PyNone THEN TheInfo(e)[attr] ELSE PyNone

\* variant: always the short message
ErrorStr_Short(e) == Message(e)

\* TemplateError.__str__
ErrorStr(e) == IF e.info # PyNone THEN TheInfo(e).full_description ELSE Message(e)

\* everything the holder of an error can read from it
Observable(e) ==
  [kind |-> Kind(e), name |-> InfoAttr(e, "name"), line |-> InfoAttr(e, "line"),
   range |-> InfoAttr(e, "range"), message |-> Message(e),
   detail |-> InfoAttr(e, "detail"),
   template_source |-> InfoAttr(e, "template_source"), str |-> ErrorStr(e)]

\* variant: the error is handed out before the info is attached
MakeErrorSteps_LateAttach == <<"construct", "return", "attach">>

\* the statements of make_error
MakeErrorSteps == <<"construct", "attach", "return">>

NoError == New(<<>>)

\* the arguments of the two ways an error is made
NoArg == [via |-> "none", message |-> <<>>, info |-> PyNone]

Direct(message) == [via |-> "direct", message |-> message, info |-> PyNone]

ByMakeError(info) == [via |-> "make_error", message |-> <<>>, info |-> {info}]

NothingSeen == [valid |-> FALSE, read |-> Observable(NoError)]

ErrorInit ==
  /\ ePc = "none"
  /\ eStep = 1
  /\ eArg = NoArg
  /\ err = NoError
  /\ eBorn = Observable(NoError)
  /\ eReturned = Observable(NoError)
  /\ eSeen = NothingSeen

\* raise TemplateError(message), with no info
ConstructDirect(message) ==
  /\ UNCHANGED exceptError
  /\ ePc = "none"
  /\ ePc' = "live"
  /\ eArg' = Direct(message)
  /\ err' = New(message)
  /\ eBorn' = Observable(New(message))
  /\ eReturned' = Observable(New(message))
  /\ UNCHANGED <<eStep, eSeen>>

\* the engine calls make_error(info)
BeginMakeError(info) ==
  /\ UNCHANGED exceptError
  /\ ePc = "none"
  /\ ePc' = "making"
  /\ eArg' = ByMakeError(info)
  /\ eStep' = 1
  /\ UNCHANGED <<err, eBorn, eReturned, eSeen>>

\* make_error executes its next statement
MakeErrorStep ==
  /\ UNCHANGED exceptError
  /\ eArg.via = "make_error"
  /\ eStep <= Len(MakeErrorSteps)
  /\ eStep' = eStep + 1
  /\ CASE MakeErrorSteps[eStep] = "construct" ->
            /\ err' = New(TheInfo(eArg).description)
            /\ eBorn' = Observable(New(TheInfo(eArg).description))
            /\ UNCHANGED <<ePc, eReturned>>
       [] MakeErrorSteps[eStep] = "attach" ->
            /\ err' = Attached(err, TheInfo(eArg))
            /\ UNCHANGED <<ePc, eBorn, eReturned>>
       [] MakeErrorSteps[eStep] = "return" ->
            /\ ePc' = "live"
            /\ eReturned' = Observable(err)
            /\ UNCHANGED <<err, eBorn>>
  /\ UNCHANGED <<eArg, eSeen>>

\* the holder of the error reads its properties and str(error)
Inspect ==
  /\ UNCHANGED exceptError
  /\ ePc = "live"
  /\ eSeen' = [valid |-> TRUE, read |-> Observable(err)]
  /\ UNCHANGED <<ePc, eStep, eArg, err, eBorn, eReturned>>

\* the error is discarded
Discard ==
  /\ UNCHANGED exceptError
  /\ ePc = "live"
  /\ ePc' = "none"
  /\ eStep' = 1
  /\ eArg' = NoArg
  /\ err' = NoError
  /\ eBorn' = Observable(NoError)
  /\ eReturned' = Observable(NoError)
  /\ eSeen' = NothingSeen

ErrorNext ==
  \/ \E message \in Messages : ConstructDirect(message)
  \/ \E info \in Infos : BeginMakeError(info)
  \/ MakeErrorStep
  \/ Inspect
  \/ Discard

(***************************************************************************)
(* Concurrent lookups in the shared template cache.                        *)
(***************************************************************************)
\* a cache slot without a template
AbsentEntry == [present |-> FALSE, parsed |-> FALSE, load |-> 0]

\* a slot marked present whose template is not stored yet
MarkedEntry == [present |-> TRUE, parsed |-> FALSE, load |-> 0]

\* a complete entry: the template parsed from what the loader returned at its
\* load-th invocation
ParsedEntry(load) == [present |-> TRUE, parsed |-> TRUE, load |-> load]

\* variant: the slot is marked present first and filled afterwards
CacheWriteSteps_MarkThenFill == <<"mark", "fill">>

\* the steps in which a thread writes its parsed template to the cache: the
\* complete entry is stored at once
CacheWriteSteps == <<"store">>

NoRead == [valid |-> FALSE, entry |-> AbsentEntry, last |-> 0]

MissInit ==
  /\ mPc = [t \in Threads |-> "idle"]
  /\ mName = [t \in Threads |-> "index.html"]
  /\ mLocal = [t \in Threads |-> 0]
  /\ mStep = [t \in Threads |-> 1]
  /\ mCache = [n \in Names |-> AbsentEntry]
  /\ mLoads = 0
  /\ mLast = [n \in Names |-> 0]
  /\ mRead = [t \in Threads |-> NoRead]
  /\ mOverlap = FALSE

\* thread t resolves the name n: it reads the cache, and on a miss goes on to
\* the loader
LookUp(t, n) ==
  /\ UNCHANGED exceptMisses
  /\ mPc[t] = "idle"
  /\ mName' = [mName EXCEPT ![t] = n]
  /\ IF mCache[n].present
     THEN /\ mRead' = [mRead EXCEPT ![t] =
                         [valid |-> TRUE, entry |-> mCache[n], last |-> mLast[n]]]
          /\ UNCHANGED <<mPc, mOverlap>>
     ELSE /\ mLoads < MaxLoads
          /\ mPc' = [mPc EXCEPT ![t] = "loading"]
          /\ mOverlap' = (mOverlap \/ \E u \in Threads \ {t} :
                                        mPc[u] # "idle" /\ mName[u] = n)
          /\ mRead' = [mRead EXCEPT ![t] = NoRead]
  /\ UNCHANGED <<mLocal, mStep, mCache, mLoads, mLast>>

\* the loader returns the source to thread t, which parses it
LoaderReturns(t) ==
  /\ UNCHANGED exceptMisses
  /\ mPc[t] = "loading"
  /\ mLoads' = mLoads + 1
  /\ mLocal' = [mLocal EXCEPT ![t] = mLoads + 1]
  /\ mPc' = [mPc EXCEPT ![t] = "writing"]
  /\ mStep' = [mStep EXCEPT ![t] = 1]
  /\ UNCHANGED <<mName, mCache, mLast, mRead, mOverlap>>

\* thread t performs the next step of its cache write
WriteEntry(t) ==
  /\ UNCHANGED exceptMisses
  /\ mPc[t] = "writing"
  /\ LET step == CacheWriteSteps[mStep[t]]
         n == mName[t]
     IN /\ mCache' = [mCache EXCEPT ![n] =
                        IF step = "mark" THEN MarkedEntry ELSE ParsedEntry(mLocal[t])]
        /\ mLast' = [mLast EXCEPT ![n] = IF step = "mark" THEN @ ELSE mLocal[t]]
  /\ IF mStep[t] = Len(CacheWriteSteps)
     THEN /\ mPc' = [mPc EXCEPT ![t] = "idle"]
          /\ mStep' = [mStep EXCEPT ![t] = 1]
     ELSE /\ mStep' = [mStep EXCEPT ![t] = mStep[t] + 1]
          /\ UNCHANGED mPc
  /\ UNCHANGED <<mName, mLocal, mLoads, mRead, mOverlap>>

MissNext ==
  \/ \E t \in Threads, n \in Names : LookUp(t, n)
  \/ \E t \in Threads : LoaderReturns(t)
  \/ \E t \in Threads : WriteEntry(t)

(***************************************************************************)
(* Specifications.                                                         *)
(***************************************************************************)
vars == <<cacheVars, syntaxVars, renderVars, laterVars>>

Init == CacheInit /\ SyntaxInit /\ RenderInit /\ StateInit /\ PathInit /\ ThreadInit /\ ErrorInit
        /\ MissInit

SpecCache == Init /\ [][CacheNext]_vars

SpecSyntax == Init /\ [][SyntaxNext]_vars

SpecRender == Init /\ [][RenderNext]_vars

SpecState == Init /\ [][StateNext]_vars

SpecPath == Init /\ [][PathNext]_vars

SpecError == Init /\ [][ErrorNext]_vars

SpecMisses == Init /\ [][MissNext]_vars

\* the clock advances, and a thread that can run again and again is scheduled
\* and runs: the interpreter hands its lock to waiting threads
SpecThreads ==
  /\ Init /\ [][ThreadNext]_vars
  /\ WF_vars(Tick)
  /\ \A w \in Workers : SF_vars(Schedule(w)) /\ SF_vars(WorkerStep(w))

(***************************************************************************)
(* Properties of the template cache.                                       *)
(***************************************************************************)
RECURSIVE FirstResolutions(_)
\* the names of a sequence of renders in the order of their first render
FirstResolutions(seq) ==
  IF seq = <<>> THEN <<>>
  ELSE LET front == FirstResolutions(SubSeq(seq, 1, Len(seq) - 1))
           n == seq[Len(seq)]
       IN IF \E i \in 1..Len(front) : front[i] = n THEN front ELSE Append(front, n)

Count(seq, n) == Cardinality({i \in 1..Len(seq) : seq[i] = n})

\* C1: between two invalidations (reload(), or a render under
\* reload_before_render) the loader is invoked exactly once for each distinct
\* name rendered, at the first render of that name and never again: the
\* loader's invocations are the first renders of the names, in order.
C1_LoaderOncePerName ==
  /\ loadsSinceClear = FirstResolutions(rendersSinceClear)
  /\ \A n \in Names : Count(loadsSinceClear, n) <= 1

\* C1 witness: test_loader's sequence, index twice then other, two loader calls
C1_Witness ==
  /\ ~reload_before_render
  /\ rendersSinceClear = <<"index.html", "index.html", "other.html">>
  /\ called = <<"index.html", "other.html">>

\* C2 (as amended): assigning env.loader keeps the cached entries. A render of
\* a name that was cached when the loader was assigned, with no reload() and
\* no render under reload_before_render in between, does not invoke the loader.
C2_SetLoaderKeepsCache ==
  (lastOp.op = "render" /\ lastOp.cachedAtSet) => ~lastOp.loaded

\* C2 witness: a name cached under my_loader is rendered from the cache after
\* other_loader was installed
C2_Witness ==
  /\ lastOp.op = "render" /\ lastOp.cachedAtSet /\ ~lastOp.loaded
  /\ loader = "other_loader" /\ cache[lastOp.name] = "my_loader"

\* C2 (original claim): assigning env.loader clears the cache, so the next
\* render of a name that was cached before the assignment invokes the loader.
C2_Original ==
  (lastOp.op = "render" /\ lastOp.cachedAtSet) => lastOp.loaded

\* C3: reload() leaves the cache empty and the installed loader as it was, and
\* the next render of a name that was cached before the reload invokes the
\* loader, once.
C3_ReloadClears ==
  /\ lastOp.op = "reload" => (cache = EmptyCache /\ loader = lastOp.loaderBefore)
  /\ (lastOp.op = "render" /\ lastOp.cachedAtReload) =>
        (lastOp.loaded /\ Count(loadsSinceClear, lastOp.name) = 1
         /\ called[Len(called)] = lastOp.name)

\* C3 witness: with the flag off, a name cached before reload() is rendered
\* again and loaded again
C3_Witness ==
  /\ lastOp.op = "render" /\ lastOp.cachedAtReload /\ lastOp.loaded
  /\ ~lastOp.flag /\ Count(called, lastOp.name) = 2

\* C4: while reload_before_render is on, every render_template invokes the
\* loader for the rendered name: since the flag was switched on the loader's
\* invocations are the rendered names, in order, repeats included.
C4_ReloadBeforeRender ==
  reload_before_render =>
    SubSeq(called, mark[1] + 1, Len(called)) = SubSeq(rendered, mark[2] + 1, Len(rendered))

\* C4 witness: test_loader_reload's sequence, rendered with the flag on after
\* index.html was already cached
C4_Witness ==
  /\ reload_before_render /\ mark[1] = 1 /\ mark[2] = 1
  /\ rendered = <<"index.html", "index.html", "index.html", "other.html">>
  /\ called = rendered

(***************************************************************************)
(* Properties of the syntax configuration.                                 *)
(***************************************************************************)
\* C5: a reconfiguration whose delimiter set conflicts is rejected and leaves
\* the previously active configuration fully intact: no value of the rejected
\* set is applied.
C5_RejectedLeavesIntact ==
  outcome = "rejected" => syntax = snapshot

\* C6: every render tokenizes with the complete delimiter set from before the
\* running reconfiguration or with its complete target, never with a mixture.
C6_NoMixedRender ==
  \A t \in Threads : rendering[t] => ~mixedStart[t]

\* C16: a constructor call on the defaults with a delimiter set that is
\* collision-free as a whole succeeds: none of the intermediate configurations
\* of the one-at-a-time assignments is rejected, so a rejected call had a
\* colliding set.
C16_CollisionFreeSetAccepted ==
  (outcome = "rejected" /\ snapshot = DefaultSyntax) => Collides(target)

(***************************************************************************)
(* Properties of a render.                                                 *)
(***************************************************************************)
\* the expression the render evaluated last
LastItem == rItems[rIdx]

\* test_autoescape's callback fails for every name but foo.html
AutoEscapeFails == rAutoEscape = "auto_escape" /\ rName # "foo.html"

\* C7: when the autoescape callback raises, the render does not abort: it goes
\* on with no escaping, the failure is handed to the unraisable hook and never
\* to the caller, and a render whose other callbacks do not fail returns its
\* output unescaped.
C7_AutoEscapeFailureNotRaised ==
  (rPc \in {"emit", "done"} /\ AutoEscapeFails) =>
    /\ rMode = "none"
    /\ unraisable.type = "AssertionError" /\ unraisable.origin = "auto_escape"
    /\ rResult.exc.origin # "auto_escape"
    /\ \A i \in 1..Len(rOutput) :
         (rFinalizer = "None" /\ rItems[i].value.kind \in {"str", "safe", "bytes"})
           => rOutput[i] = rItems[i].value.chars
    /\ (rPc = "done" /\ rFinalizer = "None" /\ \A i \in 1..Len(rItems) : ~rItems[i].raises)
         => (rResult.status = "ok" /\ Len(rOutput) = IF IsEval(rName) THEN 0 ELSE Len(rItems))

\* C7 witness: test_autoescape's render of invalid.html with foo = "<x>"
C7_Witness ==
  /\ rPc = "done" /\ rName = "invalid.html" /\ rAutoEscape = "auto_escape"
  /\ rItems = <<[call |-> "none", raises |-> FALSE, value |-> Str(Text_x)]>>
  /\ rResult.status = "ok" /\ rOutput = <<Text_x>>
  /\ unraisable.type = "AssertionError"

\* C8: the autoescape callback is invoked exactly once per render, with the
\* template's name and before anything is written; the mode decided then (no
\* escaping without a callback) is what every callback of the render observes.
C8_OneDecisionPerRender ==
  /\ rPc = "decide" => (aeCalls = <<>> /\ rOutput = <<>> /\ observed = <<>>)
  /\ rPc \in {"emit", "done"} =>
       /\ aeCalls = IF rAutoEscape = "None" THEN <<>> ELSE <<rName>>
       /\ rMode = IF rAutoEscape = "None" \/ AutoEscapeFails THEN "none" ELSE "html"
       /\ \A i \in 1..Len(observed) : observed[i] = rMode

\* C8 witness: a finished render under a callback that chose html, two
\* callbacks of which saw the mode
C8_Witness ==
  /\ rPc = "done" /\ rResult.status = "ok" /\ rAutoEscape = "auto_escape"
  /\ aeCalls = <<"foo.html">> /\ rMode = "html"
  /\ Len(rOutput) = 2 /\ Len(observed) = 2

\* C9: an exception raised by a filter, test, global function, finalizer or
\* attribute access during render or eval reaches the caller unchanged, with
\* its type and message: it is not turned into a TemplateError and the call
\* does not return normally.
C9_HostExceptionPropagates ==
  (rPc = "done" /\ rIdx >= 1) =>
    /\ (LastItem.call # "none" /\ LastItem.raises) =>
         /\ rResult.status = "raised"
         /\ rResult.exc.origin = LastItem.call
         /\ rResult.exc.type = (IF LastItem.call \in {"getattr", "test"}
                                THEN "RuntimeError" ELSE "ZeroDivisionError")
         /\ rResult.exc.msg = (IF LastItem.call \in {"getattr", "test"}
                               THEN "boom" ELSE "division by zero")
    /\ (~LastItem.raises /\ rFinalizer = "raising_finalizer" /\ ~IsEval(rName)) =>
         rResult = [status |-> "raised",
                    exc |-> [type |-> "ZeroDivisionError", msg |-> "division by zero",
                             origin |-> "finalizer"]]
    /\ rResult.status = "ok" => \A i \in 1..Len(rItems) : ~rItems[i].raises

\* C9 witness: test_attribute_lookups, eval_expr of x.foo where __getattr__
\* raises RuntimeError("boom")
C9_Witness ==
  /\ rPc = "done" /\ rName = ExpressionName
  /\ LastItem.call = "getattr" /\ LastItem.raises
  /\ rResult.status = "raised" /\ rResult.exc.type = "RuntimeError"
  /\ rResult.exc.msg = "boom"

\* C10: the finalizer is invoked on every value right before it is written;
\* where it returns NotImplemented the value is written as with no finalizer,
\* and otherwise its return value is written ("" for None, the hex string
\* for bytes, as my_finalizer returns them).
C10_FinalizerApplied ==
  /\ rFinalizer = "None" => finCalls = <<>>
  /\ (rFinalizer # "None" /\ ~IsEval(rName)) =>
       /\ Len(finCalls) \in {Len(rOutput), Len(rOutput) + 1}
       /\ Len(finCalls) = Len(rOutput) + 1 => rResult.status = "raised"
       /\ \A i \in 1..Len(finCalls) : finCalls[i] = ToHost(rItems[i].value)
  /\ (rFinalizer = "my_finalizer" /\ rName = StringName) =>
       \A i \in 1..Len(rOutput) :
         LET v == rItems[i].value
         IN rOutput[i] = IF v.kind \in {"undefined", "none"} THEN <<>>
                         ELSE IF v = Bytes(Text_test)
                              THEN <<"7", "4", "6", "5", "7", "3", "7", "4">>
                         ELSE Written(v, rMode)

\* C10 witness: test_finalizer's renders of foo = "test" and foo = b"test"
C10_Witness ==
  /\ rPc = "done" /\ rResult.status = "ok"
  /\ rFinalizer = "my_finalizer" /\ rName = StringName
  /\ rItems = <<[call |-> "none", raises |-> FALSE, value |-> Str(Text_test)],
                [call |-> "none", raises |-> FALSE, value |-> Bytes(Text_test)]>>
  /\ rOutput = <<Text_test, <<"7", "4", "6", "5", "7", "3", "7", "4">> >>
  /\ Len(finCalls) = 2

(***************************************************************************)
(* Properties of the execution state.                                      *)
(***************************************************************************)
Innermost(stack) == IF stack = <<>> THEN "None" ELSE stack[Len(stack)]

\* C11: whenever a state-aware callback reads the state, state.current_block
\* is the innermost enclosing block (none outside any block) and
\* state.current_call is the name the running callback was invoked under; this
\* holds again for the outer block or callback after a nested one ended.
C11_StateTracksNesting ==
  /\ lastObs.seen => (lastObs.block = Innermost(enclosing)
                      /\ lastObs.call = Innermost(running))
  /\ current_block = Innermost(enclosing)
  /\ current_call = Innermost(running)

\* C11 witness: inside block foo, my_func has invoked and got back from the
\* filter myfilter, and reads its own name and block again
C11_Witness ==
  /\ lastObs.seen /\ lastObs.after = "return"
  /\ lastObs.block = "foo" /\ lastObs.call = "my_func"
  /\ enclosing = <<"foo">> /\ running = <<"my_func">>
  /\ savedBlocks = <<"None">> /\ savedCalls = <<"None">>

(***************************************************************************)
(* Properties of loading from a directory.                                 *)
(***************************************************************************)
\* the name leads to no file
Missing(name) == Resolved(name) \notin Disk

\* C12: render_template of a name the loader has no template for, and of a
\* name whose path leaves the template root, both fail with a TemplateError of
\* kind TemplateNotFound.
C12_NotFoundKind ==
  (pPc = "idle" /\ pName # <<>> /\ (Missing(pName) \/ Escapes(pName)))
    => pOutcome.kind = "TemplateNotFound"

\* C12 witness: render_template("../test_basic.py") has failed with
\* TemplateNotFound although the file exists
C12_Witness ==
  /\ pPc = "idle" /\ pName = <<"..", "test_basic.py">>
  /\ ~Missing(pName)
  /\ pOutcome.kind = "TemplateNotFound"

(***************************************************************************)
(* Properties of concurrent renders.                                       *)
(***************************************************************************)
AllFinished == \A w \in Workers : wPc[w] = "finished"

\* C13: the renders submitted from several threads, each with a callback that
\* blocks its own thread, all run to completion, and each render invokes its
\* callback exactly once (done ends up with one entry per render).
C13_AllRendersComplete ==
  /\ [](\A w \in Workers : calls[w] <= 1)
  /\ [](Len(done) <= MaxWorkers)
  /\ <>[](/\ AllFinished
          /\ \A w \in Workers : calls[w] = 1
          /\ done = [i \in 1..MaxWorkers |-> "something"])

\* C13 witness: every render has finished after its callback ran, and
\* callbacks of two threads were waiting at the same time on the way
C13_Witness ==
  /\ AllFinished
  /\ overlapped
  /\ done = [i \in 1..MaxWorkers |-> "something"]
  /\ \A w \in Workers : calls[w] = 1 /\ elapsed[w] = WaitTicks

(***************************************************************************)
(* Properties of TemplateError.                                            *)
(***************************************************************************)
\* the error object exists: __init__ has run and it is not discarded
ErrorExists == ePc = "live" \/ (ePc = "making" /\ eStep > 1)

\* C14 as stated: from the moment the error object exists until it is
\* discarded, its kind, name, line, range, message, detail and template source
\* (and str) do not change.
C14_Original == ErrorExists => Observable(err) = eBorn

\* C14: from the moment the error is handed out (TemplateError(...) has
\* returned to the raiser, or make_error has returned) until it is discarded,
\* its kind, name, line, range, message, detail and template source do not
\* change.
C14_FixedOnceReturned == ePc = "live" => Observable(err) = eReturned

\* C14 witness: an error made by make_error is read by its holder and reports
\* the info's kind, which it did not report when __init__ had built it
C14_Witness ==
  /\ ePc = "live" /\ eSeen.valid /\ eArg.via = "make_error"
  /\ eSeen.read.kind = "SyntaxError" /\ eBorn.kind = "Unknown"
  /\ eSeen.read = eReturned

\* C17: a TemplateError with no info reports kind "Unknown", None for name,
\* detail, line, range and template_source, and its str is its message; one
\* built by make_error(info) reports the info's kind, name, detail, line, range
\* and template_source, its str is the info's full description, and its message
\* is the short description, without the source excerpt.
C17_ErrorAccessors ==
  eSeen.valid =>
    IF eArg.via = "direct"
    THEN /\ eSeen.read.kind = "Unknown"
         /\ \A a \in {"name", "detail", "line", "range", "template_source"} :
              eSeen.read[a] = {}
         /\ eSeen.read.message = eArg.message
         /\ eSeen.read.str = eArg.message
    ELSE /\ \A a \in {"kind", "name", "detail", "line", "range", "template_source"} :
              eSeen.read[a] = TheInfo(eArg)[a]
         /\ eSeen.read.str = TheInfo(eArg).full_description
         /\ eSeen.read.message = TheInfo(eArg).description
         /\ \A i \in 1..Len(eSeen.read.message) : eSeen.read.message[i] # "excerpt"

\* C17 witness: the holder has read a syntax error made by make_error whose
\* str ends with the source excerpt that its message leaves out
C17_Witness ==
  /\ eSeen.valid /\ eArg.via = "make_error"
  /\ eSeen.read.kind = "SyntaxError" /\ eSeen.read.line = {1}
  /\ eSeen.read.template_source = {"1 +"}
  /\ eSeen.read.str = eSeen.read.message \o <<"excerpt">>

(***************************************************************************)
(* Properties of concurrent cache misses.                                  *)
(***************************************************************************)
\* C15: threads that miss the cache for one name at the same time may both
\* invoke the loader, but the cache is never corrupted: a present entry is the
\* complete parsed template of the last completed write, and no read observes
\* a partial entry or one that is marked present without a template.
C15_CacheNeverPartial ==
  /\ \A n \in Names :
       mCache[n].present => (mCache[n].parsed /\ mCache[n].load = mLast[n])
  /\ \A t \in Threads :
       mRead[t].valid => /\ mRead[t].entry.present /\ mRead[t].entry.parsed
                         /\ mRead[t].entry.load = mRead[t].last

\* C15 witness: both threads missed the cache for one name at the same time and
\* both invoked the loader; a later read sees the entry of the second write
C15_Witness ==
  \E t \in Threads :
    /\ mOverlap /\ mLoads = 2
    /\ mRead[t].valid /\ mRead[t].entry = ParsedEntry(2)
    /\ \A u \in Threads : mPc[u] = "idle" /\ mName[u] = mName[t]
====
